---- MODULE Spec2Model ----
(***************************************************************************)
(* Model of the pattoo-agents polling-and-assembly engine:                 *)
(*   - the scheduling loop          (bin/pattoo_agent_snmp_ifmibd.py)      *)
(*   - the Modbus target resolver   (agents/modbus/tcp/configuration.py)   *)
(*   - the BACnet device poller     (bacnet/ip/collector.py)               *)
(* Python values are records tagged with their type in field "t".          *)
(***************************************************************************)
EXTENDS Integers, Sequences, FiniteSets, TLC

VARIABLES
    \* --- scheduling loop (PollingAgent.query) ---
    pc,         \* position of the loop body
    interval,   \* config.polling_interval()
    now,        \* the wall clock, time()
    ts_start,   \* ts_start of the current cycle
    success,    \* result of server.post() in the current cycle
    duration,   \* time() - ts_start, computed before the sleep
    slept,      \* argument passed to sleep()
    cache,      \* number of undelivered payloads cached by the poster
    calls,      \* collaborator calls made so far, in order
    cycles,     \* completed cycles
    inflight,   \* history: cycles begun and not yet completed
    \* --- range compactor (_create_register_counts) ---
    listing,    \* the input list of register addresses
    counts,     \* the list of (start, length) tuples returned
    cpc,        \* "input" before the call, "done" after it
    \* --- unit resolution (_get_unit) ---
    udata,      \* the argument: the configuration value of a polling group
    unit_result,\* the value returned
    upc,        \* "input" before the call, "done" after it
    \* --- target resolver (ConfigModbusTCP.registervariables) ---
    groups,     \* the polling_groups list found in the configuration
    gi,         \* index of the group being processed (outer loop)
    ri,         \* index of the register kind being processed (inner loop)
    result,     \* the list of DeviceRegisterVariables built so far
    origin,     \* history: for each entry of result, the (group index,
                \* register kind) whose _create_drv call returned it
    err,        \* the exception that left the function, "" if none
    rpc,        \* "loop" while iterating, "returned" or "raised" after
    \* --- BACnet collector (_PollBACnetIP) ---
    dpts,       \* the objects returned by config.device_polling_targets()
    dpts0,      \* history: those objects as the configuration returned them
    ip_polltargets, \* self._ip_polltargets: device -> the data list of dpts
                \* it refers to (the index of the object owning the list)
    di,         \* index of the object __init__ is looking at
    arguments,  \* data(): the (device, targets) pairs in polling order
    ai,         \* index of the device being polled
    ti,         \* index of the target being polled
    datapoints, \* _serial_poller: the DataPoints of the current device
    reads,      \* history: the reads issued so far, in order, each with
                \* the value it returned (None when it raised)
    returned,   \* history: what _serial_poller returned, per device polled
    ddv_list,   \* data(): the list of DeviceDataPoints to return
    ppc         \* "init", "poll", "done" or "raised"

loopVars == <<pc, interval, now, ts_start, success, duration, slept, cache,
              calls, cycles, inflight>>
compactVars == <<listing, counts, cpc>>
unitVars == <<udata, unit_result, upc>>
resolveVars == <<groups, gi, ri, result, origin, err, rpc>>
pollVars == <<dpts, dpts0, ip_polltargets, di, arguments, ai, ti, datapoints,
              reads, returned, ddv_list, ppc>>
vars == <<loopVars, compactVars, unitVars, resolveVars, pollVars>>

-----------------------------------------------------------------------------
(* Bounds of the model *)
MaxInterval == 3
MaxPollTime == 4
MaxCycles == 2
MaxLen == 4
MaxAddr == 5
MaxStr == 4
MaxUnit == 3
MaxTenths == 27
MaxDpts == 2

-----------------------------------------------------------------------------
(* Python builtins used by the code *)

\* abs()
Abs(x) == IF x < 0 THEN -x ELSE x

\* Python's ordering of 2-tuples of integers (lexicographic)
TupleLess(a, b) == a[1] < b[1] \/ (a[1] = b[1] /\ a[2] < b[2])

RECURSIVE InsertInt(_, _)
InsertInt(x, s) ==
    IF s = << >> THEN <<x>>
    ELSE IF x <= Head(s) THEN <<x>> \o s
    ELSE <<Head(s)>> \o InsertInt(x, Tail(s))

\* list.sort() on a list of integers
RECURSIVE SortInts(_)
SortInts(s) == IF s = << >> THEN << >> ELSE InsertInt(Head(s), SortInts(Tail(s)))

RECURSIVE InsertTuple(_, _)
InsertTuple(x, s) ==
    IF s = << >> THEN <<x>>
    ELSE IF ~TupleLess(Head(s), x) THEN <<x>> \o s
    ELSE <<Head(s)>> \o InsertTuple(x, Tail(s))

\* list.sort() on a list of 2-tuples
RECURSIVE SortTuples(_)
SortTuples(s) ==
    IF s = << >> THEN << >> ELSE InsertTuple(Head(s), SortTuples(Tail(s)))

\* list(set(listing)): the distinct elements, each once
RECURSIVE ListSet(_)
ListSet(s) ==
    IF s = << >> THEN << >>
    ELSE LET rest == ListSet(Tail(s))
         IN IF \E i \in 1..Len(rest) : rest[i] = Head(s)
            THEN rest ELSE <<Head(s)>> \o rest

\* enumerate(listing): pairs (index from 0, value)
Enumerate(s) == [i \in 1..Len(s) |-> <<i - 1, s[i]>>]

\* itertools.groupby(pairs, lambda pair: pair[1] - pair[0]): the maximal
\* blocks of consecutive elements with equal key, in order
RECURSIVE GroupBy(_, _)
GroupBy(pairs, grp) ==
    IF pairs = << >> THEN (IF grp = << >> THEN << >> ELSE <<grp>>)
    ELSE LET p == Head(pairs)
         IN IF grp = << >> \/ (grp[1][2] - grp[1][1]) = (p[2] - p[1])
            THEN GroupBy(Tail(pairs), Append(grp, p))
            ELSE <<grp>> \o GroupBy(Tail(pairs), <<p>>)

-----------------------------------------------------------------------------
(* Range compactor *)

\* what each group yields: second[0][1], second[-1][1]
RangesOf(sorted) ==
    LET blocks == GroupBy(Enumerate(sorted), << >>)
    IN [g \in 1..Len(blocks) |->
            <<blocks[g][1][2], blocks[g][Len(blocks[g])][2]>>]

\* _ranger with the "Remove duplicates" step left out
_ranger_nodedup(l) == RangesOf(SortInts(l))

\* _ranger with the "Sort data beforehand" step left out
_ranger_nosort(l) == RangesOf(ListSet(l))

_ranger(l) == RangesOf(SortInts(ListSet(l)))

_create_register_counts(l) ==
    LET ranges == _ranger(l)
        pairs == [i \in 1..Len(ranges) |->
                     <<ranges[i][1], ranges[i][2] - ranges[i][1] + 1>>]
    IN SortTuples(pairs)

\* all lists of at most MaxLen addresses in 0..MaxAddr, in any order, with
\* or without duplicates
Listings == UNION {[1..n -> 0..MaxAddr] : n \in 0..MaxLen}

CompactIdle == listing = << >> /\ counts = << >> /\ cpc = "idle"

CompactInit == listing \in Listings /\ counts = << >> /\ cpc = "input"

CallCreateRegisterCounts ==
    /\ cpc = "input"
    /\ counts' = _create_register_counts(listing)
    /\ cpc' = "done"
    /\ UNCHANGED <<listing, loopVars, unitVars, resolveVars, pollVars>>

-----------------------------------------------------------------------------
(* Scheduling loop: PollingAgent.query *)

LoopIdle ==
    /\ pc = "idle" /\ interval = 0 /\ now = 0 /\ ts_start = 0
    /\ success = FALSE /\ duration = 0 /\ slept = 0 /\ cache = 0
    /\ calls = << >> /\ cycles = 0 /\ inflight = 0

\* interval = config.polling_interval(); a cache may hold payloads that
\* earlier runs of the agent could not deliver
LoopInit ==
    /\ pc = "start"
    /\ interval \in 1..MaxInterval
    /\ now = 0 /\ ts_start = 0
    /\ success = FALSE /\ duration = 0 /\ slept = 0
    /\ cache \in 0..1
    /\ calls = << >> /\ cycles = 0 /\ inflight = 0

\* a loop that begins its next pass while the sleep of the last one is
\* still pending
CycleMayStartEarly == pc \in {"start", "sleep"}

\* while True: the body is entered again only when the pass before it has
\* run to its end, the sleep included
CycleMayStart == pc = "start"

\* ts_start = time()
StartCycle ==
    /\ CycleMayStart /\ cycles < MaxCycles
    /\ ts_start' = now
    /\ inflight' = inflight + 1
    /\ pc' = "poll"
    /\ UNCHANGED <<interval, now, success, duration, slept, cache, calls,
                   cycles, compactVars, unitVars, resolveVars, pollVars>>

\* agentdata = collector.poll(): takes d units of wall-clock time
Poll ==
    /\ pc = "poll"
    /\ \E d \in 0..MaxPollTime : now' = now + d
    /\ calls' = Append(calls, "poll")
    /\ pc' = "post"
    /\ UNCHANGED <<interval, ts_start, success, duration, slept, cache,
                   cycles, inflight, compactVars, unitVars, resolveVars,
                   pollVars>>

\* PostAgent.post(): reports delivery; an undelivered payload is cached
post(ok) ==
    /\ success' = ok
    /\ cache' = IF ok THEN cache ELSE cache + 1
    /\ calls' = Append(calls, IF ok THEN "post_ok" ELSE "post_fail")

\* PostAgent.purge(): clears the cached undelivered payloads
purge ==
    /\ cache' = 0
    /\ calls' = Append(calls, "purge")

\* server = PostAgent(agentdata); success = server.post()
Post ==
    /\ pc = "post"
    /\ \E ok \in BOOLEAN : post(ok)
    /\ pc' = "check"
    /\ UNCHANGED <<interval, now, ts_start, duration, slept, cycles,
                   inflight, compactVars, unitVars, resolveVars, pollVars>>

\* the condition guarding server.purge(), with the test left out
PurgeGuardAlways == TRUE

\* if success is True:
PurgeGuard == success = TRUE

\*     server.purge()
PurgeIfSuccess ==
    /\ pc = "check"
    /\ IF PurgeGuard THEN purge ELSE UNCHANGED <<cache, calls>>
    /\ pc' = "sleep"
    /\ UNCHANGED <<interval, now, ts_start, success, duration, slept, cycles,
                   inflight, compactVars, unitVars, resolveVars, pollVars>>

\* the argument of sleep(): abs(interval - duration)
SleepTime(i, d) == Abs(i - d)

\* duration = time() - ts_start; sleep(abs(interval - duration))
Sleep ==
    /\ pc = "sleep"
    /\ duration' = now - ts_start
    /\ slept' = SleepTime(interval, duration')
    /\ now' = now + slept'
    /\ cycles' = cycles + 1
    /\ inflight' = inflight - 1
    /\ pc' = "start"
    /\ UNCHANGED <<interval, ts_start, success, cache, calls, compactVars,
                   unitVars, resolveVars, pollVars>>

-----------------------------------------------------------------------------
(* Python values of the configuration tree *)

PyNone == [t |-> "none"]
PyBool(b) == [t |-> "bool", v |-> b]
PyInt(n) == [t |-> "int", v |-> n]
\* a float with one decimal digit, held as its number of tenths
PyFloat(tenths) == [t |-> "float", v |-> tenths]
\* a str, held as the sequence of its characters
PyStr(chars) == [t |-> "str", v |-> chars]
PyList(elems) == [t |-> "list", v |-> elems]
\* a dict with str keys, held as a function from the keys
PyDict(f) == [t |-> "dict", v |-> f]

Digits == {"1", "2", "7"}
DigitVal(c) == CASE c = "1" -> 1 [] c = "2" -> 2 [] c = "7" -> 7

\* whether float(s) succeeds for a str s over the characters of the model:
\* an optional sign, then digits with at most one "." and at least one digit
IsFloatLiteral(s) ==
    LET body == IF s # << >> /\ s[1] = "-" THEN Tail(s) ELSE s
    IN /\ \A i \in 1..Len(body) : body[i] \in Digits \cup {"."}
       /\ Cardinality({i \in 1..Len(body) : body[i] = "."}) <= 1
       /\ \E i \in 1..Len(body) : body[i] \in Digits

\* pattoo_shared.data.is_numeric(val)
is_numeric(val) ==
    CASE val.t \in {"int", "float"} -> TRUE
      [] val.t = "str" -> IsFloatLiteral(val.v)
      [] OTHER -> FALSE

\* int(x) for a float x: truncation toward zero
IntOfFloat(tenths) ==
    IF tenths >= 0 THEN tenths \div 10 ELSE -((-tenths) \div 10)

Int0 == PyInt(0)

-----------------------------------------------------------------------------
(* _get_unit *)

\* _get_unit without the is_numeric() entry of the validity list
_get_unit_unscreened(data) ==
    IF data.t # "dict" THEN Int0
    ELSE IF "unit" \notin DOMAIN data.v THEN Int0
    ELSE LET unit == data.v["unit"]
             valid == /\ unit.t = "str"
                      /\ unit # PyBool(FALSE)
                      /\ unit # PyBool(TRUE)
                      /\ unit # PyNone
         IN IF valid = FALSE THEN Int0
            ELSE IF unit.t = "float" THEN PyInt(IntOfFloat(unit.v))
            ELSE unit

_get_unit(data) ==
    \* Ignore invalid non-dicts
    IF data.t # "dict" THEN Int0
    \* Default value
    ELSE IF "unit" \notin DOMAIN data.v THEN Int0
    ELSE LET unit == data.v["unit"]
             \* False not in [is_numeric(unit), isinstance(unit, str) is True,
             \*   unit is not False, unit is not True, unit is not None]
             valid == /\ is_numeric(unit)
                      /\ unit.t = "str"
                      /\ unit # PyBool(FALSE)
                      /\ unit # PyBool(TRUE)
                      /\ unit # PyNone
         IN IF valid = FALSE THEN Int0
            \* Convert float values to integer values
            ELSE IF unit.t = "float" THEN PyInt(IntOfFloat(unit.v))
            ELSE unit

Chars == Digits \cup {".", "-", "x"}
\* every str of at most MaxStr characters
Strings == UNION {[1..n -> Chars] : n \in 0..MaxStr}

\* the values a group's "unit" key is given
UnitValues ==
    {PyNone, PyBool(TRUE), PyBool(FALSE)}
    \cup {PyInt(n) : n \in -1..MaxUnit}
    \cup {PyFloat(f) : f \in -MaxTenths..MaxTenths} \cup {PyFloat(127)}
    \cup {PyStr(s) : s \in Strings}

DevA == PyStr(<<"a">>)
DevB == PyStr(<<"b">>)

\* the arguments of _get_unit: groups with and without a unit, and values
\* that are not dicts
UnitInputs ==
    {PyDict([unit |-> u]) : u \in UnitValues}
    \cup {PyDict([unit |-> u, ip_devices |-> PyList(<<DevA>>)]) : u \in UnitValues}
    \cup {PyDict([ip_devices |-> PyList(<<DevA>>)]), PyDict(<< >>)}
    \cup {PyNone, PyInt(1), PyStr(<<"x">>), PyList(<< >>), PyBool(TRUE)}

UnitIdle == udata = PyNone /\ unit_result = PyNone /\ upc = "idle"

UnitInit == udata \in UnitInputs /\ unit_result = PyNone /\ upc = "input"

CallGetUnit ==
    /\ upc = "input"
    /\ unit_result' = _get_unit(udata)
    /\ upc' = "done"
    /\ UNCHANGED <<udata, loopVars, compactVars, resolveVars, pollVars>>

-----------------------------------------------------------------------------
(* _create_drv and ConfigModbusTCP.registervariables *)

\* the outcome of a Python call: a returned value or a raised exception
Returned(x) == [raised |-> "", value |-> x]
Raised(e) == [raised |-> e, value |-> << >>]

\* "key in container"
PyIn(key, container) ==
    CASE container.t = "dict" -> Returned(key \in DOMAIN container.v)
      [] container.t = "list" ->
            Returned(\E i \in 1..Len(container.v) : container.v[i] = key)
      \* a str of the model is shorter than every key searched for
      [] container.t = "str" -> Returned(FALSE)
      [] OTHER -> Raised("TypeError")

\* "for x in value": the elements iterated over
Iterate(value) ==
    CASE value.t = "list" -> Returned(value.v)
      [] value.t = "str" ->
            Returned([i \in 1..Len(value.v) |-> PyStr(<<value.v[i]>>)])
      [] OTHER -> Raised("TypeError")

\* _create_register_counts(listing) for any configuration value: set() needs
\* an iterable, and the grouping key pair[1] - pair[0] needs integers
RegisterCountsOf(value) ==
    CASE value.t = "list" -> Returned(_create_register_counts(value.v))
      [] value.t = "str" ->
            IF value.v = << >> THEN Returned(<< >>) ELSE Raised("TypeError")
      [] OTHER -> Raised("TypeError")

\* "a not in b" for the register kinds: substring search
IsSubstring(a, b) == a = b

\* HoldingRegisterVariable / InputRegisterVariable
RegisterVariable(register_type, register, count, unit) ==
    [kind |-> IF register_type = "holding_registers" THEN "holding" ELSE "input",
     register |-> register, count |-> count, unit |-> unit]

\* DeviceRegisterVariables(ip_device) after add(variables)
DeviceRegisterVariables(ip_device, variables) ==
    [device |-> ip_device, data |-> variables]

_create_drv(data, register_type) ==
    \* Only return valid value
    IF data.t # "dict" THEN Returned(<< >>)
    \* Screen data for keys and correct type
    ELSE IF ~IsSubstring(register_type, "input_registers")
            /\ ~IsSubstring(register_type, "holding_registers")
    THEN Returned(<< >>)
    ELSE IF "ip_devices" \notin DOMAIN data.v THEN Raised("KeyError")
    ELSE IF data.v["ip_devices"].t # "list"
            /\ register_type \notin DOMAIN data.v
    THEN Raised("KeyError")
    ELSE IF data.v["ip_devices"].t # "list"
            /\ data.v[register_type].t # "list"
    THEN Returned(<< >>)
    ELSE
        LET unit == _get_unit(data)
            devices == Iterate(data.v["ip_devices"])
        IN IF devices.raised # "" THEN devices
           ELSE IF devices.value = << >> THEN Returned(<< >>)
           ELSE IF register_type \notin DOMAIN data.v THEN Raised("KeyError")
           ELSE
             LET register_counts == RegisterCountsOf(data.v[register_type])
             IN IF register_counts.raised # "" THEN register_counts
                ELSE
                  LET rc == register_counts.value
                      variables ==
                          [i \in 1..Len(rc) |->
                              RegisterVariable(register_type, rc[i][1],
                                               rc[i][2], unit)]
                  IN Returned([d \in 1..Len(devices.value) |->
                        DeviceRegisterVariables(devices.value[d], variables)])

\* for register in ['input_registers', 'holding_registers']
Registers == <<"input_registers", "holding_registers">>

Absent == [t |-> "absent"]

\* a group dict with the given values; a key given Absent is left out
Group(devs, inp, hold, unit) ==
    LET all == [ip_devices |-> devs, input_registers |-> inp,
                holding_registers |-> hold, unit |-> unit]
    IN PyDict([k \in {k \in DOMAIN all : all[k] # Absent} |-> all[k]])

Dev10001 == PyStr(<<"1", "0", ".", "0", ".", "0", ".", "1">>)

DeviceLists ==
    {Absent, PyList(<<DevA>>), PyList(<<DevA, DevB>>), PyList(<<Dev10001>>),
     PyList(<< >>), PyStr(<<"a", "b">>), PyNone, PyInt(5)}

InputLists ==
    {Absent, PyList(<<1, 2, 3, 10>>), PyList(<<2, 1, 2>>), PyList(<< >>),
     PyNone, PyInt(4), PyStr(<<"1", "2">>), PyStr(<< >>)}

HoldingLists == {Absent, PyList(<<7>>), PyNone}

GroupUnits ==
    {Absent, PyInt(2), PyInt(0), PyFloat(127), PyBool(TRUE), PyNone,
     PyStr(<<"1", "2", ".", "7">>), PyStr(<<"2">>), PyStr(<<"x">>)}

Groups ==
    {Group(d, i, h, u) : d \in DeviceLists, i \in InputLists,
                         h \in HoldingLists, u \in GroupUnits}
    \cup {PyNone, PyInt(3), PyList(<< >>), PyStr(<< >>)}

\* a well-formed group
GoodGroup ==
    Group(PyList(<<DevB>>), Absent, PyList(<<7, 8>>), PyStr(<<"2">>))

\* polling_groups: one group of any shape, alone or next to a well-formed
\* group, or no group at all
Configs ==
    {<< >>} \cup {<<g>> : g \in Groups}
    \cup {<<g, GoodGroup>> : g \in Groups}
    \cup {<<GoodGroup, g>> : g \in Groups}

ResolveInit ==
    /\ groups \in Configs
    /\ gi = 1 /\ ri = 1
    /\ result = << >> /\ origin = << >>
    /\ err = "" /\ rpc = "loop"

\* the loop indices after the current (group, register) pair
Advance ==
    IF ri < Len(Registers) THEN ri' = ri + 1 /\ gi' = gi
    ELSE ri' = 1 /\ gi' = gi + 1

\* one pass of the inner loop body:
\*     if register in group: result.extend(_create_drv(group, register))
RegisterStep ==
    /\ rpc = "loop" /\ gi <= Len(groups)
    /\ LET group == groups[gi]
           register == Registers[ri]
           present == PyIn(register, group)
       IN IF present.raised # ""
          THEN /\ err' = present.raised /\ rpc' = "raised"
               /\ UNCHANGED <<gi, ri, result, origin>>
          ELSE IF ~present.value
          THEN Advance /\ UNCHANGED <<result, origin, err, rpc>>
          ELSE LET drv == _create_drv(group, register)
               IN IF drv.raised # ""
                  THEN /\ err' = drv.raised /\ rpc' = "raised"
                       /\ UNCHANGED <<gi, ri, result, origin>>
                  ELSE /\ result' = result \o drv.value
                       /\ origin' = origin \o
                             [i \in 1..Len(drv.value) |-> <<gi, register>>]
                       /\ Advance
                       /\ UNCHANGED <<err, rpc>>
    /\ UNCHANGED <<groups, loopVars, compactVars, unitVars, pollVars>>

\* return result
RegisterReturn ==
    /\ rpc = "loop" /\ gi > Len(groups)
    /\ rpc' = "returned"
    /\ UNCHANGED <<groups, gi, ri, result, origin, err, loopVars,
                   compactVars, unitVars, pollVars>>

-----------------------------------------------------------------------------
(* BACnet collector: _PollBACnetIP *)

\* ord() of the characters device names are written with
Ord(c) == CASE c = "a" -> 97 [] c = "b" -> 98

\* s < t for two str values (lexicographic, by character code)
RECURSIVE StrLess(_, _)
StrLess(s, t) ==
    IF t = << >> THEN FALSE
    ELSE IF s = << >> THEN TRUE
    ELSE IF Ord(Head(s)) # Ord(Head(t)) THEN Ord(Head(s)) < Ord(Head(t))
    ELSE StrLess(Tail(s), Tail(t))

\* self._ip_polltargets.items() without sorted(): the dict's insertion
\* order, which is the order in which the devices were first seen
RECURSIVE ItemsInInsertionOrder(_)
ItemsInInsertionOrder(polltargets) ==
    IF DOMAIN polltargets = {} THEN << >>
    ELSE LET first == CHOOSE d \in DOMAIN polltargets :
                         \A e \in DOMAIN polltargets \ {d} :
                             polltargets[d] < polltargets[e]
             rest == [e \in DOMAIN polltargets \ {first} |-> polltargets[e]]
         IN <<[device |-> first, ref |-> polltargets[first]]>>
            \o ItemsInInsertionOrder(rest)

\* sorted(self._ip_polltargets.items()): the keys are distinct, so the
\* tuples are ordered by key alone
RECURSIVE SortedItems(_)
SortedItems(polltargets) ==
    IF DOMAIN polltargets = {} THEN << >>
    ELSE LET first == CHOOSE d \in DOMAIN polltargets :
                         \A e \in DOMAIN polltargets \ {d} : StrLess(d.v, e.v)
             rest == [e \in DOMAIN polltargets \ {first} |-> polltargets[e]]
         IN <<[device |-> first, ref |-> polltargets[first]]>>
            \o SortedItems(rest)

\* how the try/except around self._bacnet.read() leaves the loop body when
\* only the two BAC0 exceptions are caught
ReadControlBAC0Only(outcome) ==
    CASE outcome.kind = "value" -> "append"
      [] outcome.kind = "NoResponseFromController" -> "continue"
      [] outcome.kind = "UnknownObjectError" -> "continue"
      [] OTHER -> "raise"

\* how the try/except around self._bacnet.read() leaves the loop body:
\* "append" goes on to build the DataPoint, "continue" skips the target
ReadControl(outcome) ==
    CASE outcome.kind = "value" -> "append"
      [] outcome.kind = "NoResponseFromController" -> "continue"
      [] outcome.kind = "UnknownObjectError" -> "continue"
      [] outcome.kind = "Exception" -> "continue"
      [] outcome.kind = "BaseException" -> "continue"

\* float(value), in tenths, of a value is_numeric() accepts; a str of the
\* model read from a device has no fractional digits
FloatTenths(value) ==
    CASE value.t = "int" -> 10 * value.v
      [] value.t = "float" -> value.v
      [] value.t = "str" ->
            LET neg == value.v # << >> /\ value.v[1] = "-"
                body == IF neg THEN Tail(value.v) ELSE value.v
                RECURSIVE Val(_)
                Val(ds) == IF ds = << >> THEN 0
                           ELSE 10 * Val(SubSeq(ds, 1, Len(ds) - 1))
                                + DigitVal(ds[Len(ds)])
            IN IF neg THEN -10 * Val(body) ELSE 10 * Val(body)

\* the DataPoint built with the multiplication left out
MakeDataPointUnscaled(ip_device, polltarget, value) ==
    LET numeric == is_numeric(value) = TRUE
    IN [key |-> "BACnet_analogValue",
        value |-> IF numeric THEN PyFloat(FloatTenths(value)) ELSE value,
        data_type |-> IF numeric THEN "DATA_FLOAT" ELSE "DATA_STRING",
        point |-> polltarget.address,
        device |-> ip_device]

\* the DataPoint built from a value read for polltarget: "Do multiplication"
\* and "Update datapoints"
MakeDataPoint(ip_device, polltarget, value) ==
    LET numeric == is_numeric(value) = TRUE
    IN [key |-> "BACnet_analogValue",
        value |-> IF numeric
                  THEN PyFloat(FloatTenths(value) * polltarget.multiplier)
                  ELSE value,
        data_type |-> IF numeric THEN "DATA_FLOAT" ELSE "DATA_STRING",
        point |-> polltarget.address,
        device |-> ip_device]

\* DeviceDataPoints(ip_device) after add(datapoints)
DeviceDataPoints(ip_device, items) ==
    [device |-> ip_device, data |-> items, valid |-> TRUE]

\* data() keeping only the results that carry points
KeepResultNonEmpty(res) == res.valid = TRUE /\ res.data # << >>

\* if result.valid is True: ddv_list.append(result)
KeepResult(res) == res.valid = TRUE

\* extend() written as an assignment: the list is replaced
list_replace(list, items) == items

\* list.extend(items): the list, lengthened in place by the items
list_extend(list, items) == list \o items

PollingPoint(address, multiplier) ==
    [address |-> address, multiplier |-> multiplier]

DevAB == PyStr(<<"a", "b">>)
Devices == {DevB, DevAB}

\* the data lists of the polling-target objects
DataLists ==
    {<<PollingPoint(1, 1)>>,
     <<PollingPoint(2, 3), PollingPoint(1, 1)>>}

\* the objects config.device_polling_targets() returns: a valid one names a
\* device and holds points
PollTargets ==
    [valid : {TRUE}, device : Devices, data : DataLists]
    \cup [valid : {FALSE}, device : Devices, data : DataLists \cup {<< >>}]

\* what self._bacnet.read() does: returns a value or raises
ReadOutcomes ==
    {[kind |-> "value", value |-> v] :
        v \in {PyInt(10), PyStr(<<"7">>), PyStr(<<"x">>)}}
    \cup {[kind |-> k, value |-> PyNone] :
        k \in {"NoResponseFromController", "UnknownObjectError",
               "Exception", "BaseException"}}

PollIdle ==
    /\ dpts = << >> /\ dpts0 = << >> /\ ip_polltargets = << >> /\ di = 0
    /\ arguments = << >> /\ ai = 0 /\ ti = 0 /\ datapoints = << >>
    /\ reads = << >> /\ returned = << >> /\ ddv_list = << >>
    /\ ppc = "idle"

PollInit ==
    /\ dpts \in UNION {[1..n -> PollTargets] : n \in 0..MaxDpts}
    /\ dpts0 = dpts
    /\ ip_polltargets = << >> /\ di = 1
    /\ arguments = << >> /\ ai = 0 /\ ti = 0 /\ datapoints = << >>
    /\ reads = << >> /\ returned = << >> /\ ddv_list = << >>
    /\ ppc = "init"

\* __init__, one pass of "for dpt in device_poll_targets": the map holds,
\* per device, a reference to the data list of the first object seen for it
\* (ref: the index of that object), and extend() lengthens that list
InitStep ==
    /\ ppc = "init" /\ di <= Len(dpts)
    /\ LET dpt == dpts[di]
           next_device == dpt.device
       IN IF dpt.valid = FALSE
          THEN UNCHANGED <<dpts, ip_polltargets>>
          ELSE IF next_device \in DOMAIN ip_polltargets
          THEN /\ dpts' = [dpts EXCEPT ![ip_polltargets[next_device]].data =
                                           list_extend(@, dpt.data)]
               /\ UNCHANGED ip_polltargets
          ELSE /\ ip_polltargets' =
                     [d \in DOMAIN ip_polltargets \cup {next_device} |->
                         IF d = next_device THEN di ELSE ip_polltargets[d]]
               /\ UNCHANGED dpts
    /\ di' = di + 1
    /\ UNCHANGED <<arguments, ai, ti, datapoints, reads, returned, ddv_list,
                   ppc, dpts0, loopVars, compactVars, unitVars, resolveVars>>

\* data(): "for ip_device, dpts in sorted(self._ip_polltargets.items())"
DataSort ==
    /\ ppc = "init" /\ di > Len(dpts)
    /\ arguments' = SortedItems(ip_polltargets)
    /\ ai' = 1 /\ ti' = 1
    /\ ppc' = "poll"
    /\ UNCHANGED <<dpts, ip_polltargets, di, datapoints, reads, returned,
                   ddv_list, dpts0, loopVars, compactVars, unitVars,
                   resolveVars>>

\* the polltargets of the device being polled
CurrentTargets == dpts[arguments[ai].ref].data

\* _serial_poller, one pass of "for polltarget in polltargets"
ReadTarget ==
    /\ ppc = "poll" /\ ai <= Len(arguments) /\ ti <= Len(CurrentTargets)
    /\ \E outcome \in ReadOutcomes :
         LET ip_device == arguments[ai].device
             polltarget == CurrentTargets[ti]
             control == ReadControl(outcome)
         IN /\ reads' = Append(reads, [device |-> ip_device, index |-> ti,
                                       address |-> polltarget.address,
                                       ok |-> outcome.kind = "value",
                                       raw |-> outcome.value])
            /\ IF control = "raise"
               THEN ppc' = "raised" /\ UNCHANGED <<ti, datapoints>>
               ELSE /\ datapoints' =
                          IF control = "append"
                          THEN Append(datapoints,
                                 MakeDataPoint(ip_device, polltarget,
                                               outcome.value))
                          ELSE datapoints
                    /\ ti' = ti + 1
                    /\ UNCHANGED ppc
    /\ UNCHANGED <<dpts, ip_polltargets, di, arguments, ai, returned,
                   ddv_list, dpts0, loopVars, compactVars, unitVars,
                   resolveVars>>

\* _serial_poller returns ddv; data() appends it when it is valid
FinishDevice ==
    /\ ppc = "poll" /\ ai <= Len(arguments) /\ ti > Len(CurrentTargets)
    /\ LET res == DeviceDataPoints(arguments[ai].device, datapoints)
       IN /\ returned' = Append(returned, res)
          /\ ddv_list' = IF KeepResult(res) THEN Append(ddv_list, res)
                         ELSE ddv_list
    /\ ai' = ai + 1 /\ ti' = 1 /\ datapoints' = << >>
    /\ UNCHANGED <<dpts, ip_polltargets, di, arguments, reads, ppc,
                   dpts0, loopVars, compactVars, unitVars, resolveVars>>

\* data(): return ddv_list
DataReturn ==
    /\ ppc = "poll" /\ ai > Len(arguments)
    /\ ppc' = "done"
    /\ UNCHANGED <<dpts, ip_polltargets, di, arguments, ai, ti, datapoints,
                   reads, returned, ddv_list, dpts0, loopVars, compactVars,
                   unitVars, resolveVars>>

-----------------------------------------------------------------------------
(* Specifications *)

ResolveIdle ==
    /\ groups = << >> /\ gi = 0 /\ ri = 0 /\ result = << >> /\ err = ""
    /\ origin = << >>
    /\ rpc = "idle"

InitLoop == LoopInit /\ CompactIdle /\ UnitIdle /\ ResolveIdle /\ PollIdle
NextLoop == StartCycle \/ Poll \/ Post \/ PurgeIfSuccess \/ Sleep
SpecLoop == InitLoop /\ [][NextLoop]_vars

InitCompact == CompactInit /\ LoopIdle /\ UnitIdle /\ ResolveIdle /\ PollIdle
NextCompact == CallCreateRegisterCounts
SpecCompact == InitCompact /\ [][NextCompact]_vars

InitUnit == UnitInit /\ LoopIdle /\ CompactIdle /\ ResolveIdle /\ PollIdle
NextUnit == CallGetUnit
SpecUnit == InitUnit /\ [][NextUnit]_vars

InitResolve == ResolveInit /\ LoopIdle /\ CompactIdle /\ UnitIdle /\ PollIdle
NextResolve == RegisterStep \/ RegisterReturn
SpecResolve == InitResolve /\ [][NextResolve]_vars

InitPoll ==
    PollInit /\ LoopIdle /\ CompactIdle /\ UnitIdle /\ ResolveIdle
NextPoll == InitStep \/ DataSort \/ ReadTarget \/ FinishDevice \/ DataReturn
SpecPoll == InitPoll /\ [][NextPoll]_vars

-----------------------------------------------------------------------------
(* Claims *)

\* max(a, b), as the sleep is specified
Max(a, b) == IF a >= b THEN a ELSE b

\* C1: the sleep taken before the next cycle equals max(0, interval -
\* duration); a cycle longer than the interval is followed by no sleep.
C1_SleepIsMaxZero ==
    (pc = "start" /\ cycles > 0) => slept = Max(0, interval - duration)

\* C2: purge() is invoked only right after a post() of the same cycle that
\* returned success: every "purge" in the call history directly follows a
\* "post_ok", so after a failed post no purge happens before the next post
\* and the cached payloads (including the one just cached) stay.
C2_PurgeOnlyAfterSuccess ==
    /\ \A i \in 1..Len(calls) :
          calls[i] = "purge" => (i > 1 /\ calls[i - 1] = "post_ok")
    /\ \A i \in 1..Len(calls) :
          (calls[i] = "post_fail"
             /\ \A j \in (i + 1)..Len(calls) : calls[j] = "poll") => cache > 0

C2_Witness ==
    /\ pc = "start" /\ cycles = 2
    /\ calls = <<"poll", "post_fail", "poll", "post_ok", "purge">>
    /\ cache = 0

\* the number of collections started so far
RECURSIVE CountPolls(_)
CountPolls(cs) ==
    IF cs = << >> THEN 0
    ELSE (IF Head(cs) = "poll" THEN 1 ELSE 0) + CountPolls(Tail(cs))

\* C14: the loop is single-flight: at most one cycle is in progress at any
\* time, and when a cycle's collection is about to start, every cycle
\* whose collection was started before has completed its post, optional
\* purge and sleep.
C14_SingleFlight ==
    /\ inflight <= 1
    /\ (inflight = 1) <=> (pc \in {"poll", "post", "check", "sleep"})
    /\ pc = "poll" => CountPolls(calls) = cycles
    /\ CountPolls(calls) <= cycles + 1

C14_Witness ==
    /\ pc = "post" /\ cycles = 1 /\ inflight = 1
    /\ calls = <<"poll", "post_ok", "purge", "poll">>

\* the set of addresses covered by run r = (start, length)
RunAddrs(r) == r[1] .. (r[1] + r[2] - 1)

RECURSIVE SumLengths(_)
SumLengths(rs) == IF rs = << >> THEN 0 ELSE Head(rs)[2] + SumLengths(Tail(rs))

Addrs(l) == {l[i] : i \in 1..Len(l)}

\* C8: the runs cover exactly the set of distinct input addresses: each
\* input address lies in exactly one run, no run holds an address that is
\* not in the input, and the run lengths sum to the number of distinct
\* addresses.
C8_RunsCoverExactly ==
    cpc = "done" =>
        /\ \A a \in Addrs(listing) :
              Cardinality({i \in 1..Len(counts) : a \in RunAddrs(counts[i])}) = 1
        /\ \A i \in 1..Len(counts) : RunAddrs(counts[i]) \subseteq Addrs(listing)
        /\ SumLengths(counts) = Cardinality(Addrs(listing))

C8_Witness ==
    cpc = "done" /\ listing = <<3, 1, 1, 0>> /\ counts = <<<<0, 2>>, <<3, 1>>>>

\* C9: the output is the minimal set of runs: every run has length >= 1
\* and each run starts strictly after the previous run's start + length;
\* empty input gives empty output.
C9_RunsMinimal ==
    cpc = "done" =>
        /\ \A i \in 1..Len(counts) : counts[i][2] >= 1
        /\ \A i \in 2..Len(counts) :
              counts[i][1] > counts[i - 1][1] + counts[i - 1][2]
        /\ (listing = << >> => counts = << >>)

C9_Witness ==
    cpc = "done" /\ listing = <<5, 2, 1>> /\ counts = <<<<1, 2>>, <<5, 1>>>>

\* the reads issued for a device, in order
ReadsOf(dev) == SelectSeq(reads, LAMBDA r : r.device = dev)

\* C3: a failed read (no response, unknown object, any other error) never
\* leaves the device poller as an exception and yields no point; every
\* target of the device is still read, in order, and the points returned
\* for the device are those of the reads that succeeded.
C3_FaultIsolated ==
    /\ ppc # "raised"
    /\ ppc = "done" =>
          \A k \in 1..Len(arguments) :
              LET dev == arguments[k].device
                  targets == dpts[arguments[k].ref].data
                  rs == ReadsOf(dev)
                  oks == SelectSeq(rs, LAMBDA r : r.ok)
              IN /\ Len(rs) = Len(targets)
                 /\ \A j \in 1..Len(rs) :
                       rs[j].index = j /\ rs[j].address = targets[j].address
                 /\ returned[k].device = dev
                 /\ Len(returned[k].data) = Len(oks)
                 /\ \A j \in 1..Len(oks) :
                       /\ returned[k].data[j].point = oks[j].address
                       /\ returned[k].data[j].device = dev

C3_Witness ==
    /\ ppc = "done"
    /\ reads = <<[device |-> DevB, index |-> 1, address |-> 2, ok |-> FALSE,
                  raw |-> PyNone],
                 [device |-> DevB, index |-> 2, address |-> 1, ok |-> TRUE,
                  raw |-> PyInt(10)]>>
    /\ Len(returned) = 1 /\ Len(returned[1].data) = 1
    /\ returned[1].data[1].point = 1

RECURSIVE ContributedTargets(_, _)
ContributedTargets(objs, d) ==
    IF objs = << >> THEN << >>
    ELSE (IF Head(objs).valid /\ Head(objs).device = d
          THEN Head(objs).data ELSE << >>)
         \o ContributedTargets(Tail(objs), d)

\* C11: a device named by two or more polling-target objects is polled
\* with the targets of all of them: its target sequence is the
\* concatenation of every object's targets (none lost, none replaced, no
\* deduplication), and that sequence is what the poller reads.
C11_TargetsAccumulate ==
    ppc \in {"poll", "done"} =>
        \A d \in Devices :
            /\ d \in DOMAIN ip_polltargets <=>
                  \E i \in 1..Len(dpts0) : dpts0[i].valid /\ dpts0[i].device = d
            /\ d \in DOMAIN ip_polltargets =>
                  /\ dpts[ip_polltargets[d]].data = ContributedTargets(dpts0, d)
                  /\ ppc = "done" =>
                        /\ Len(ReadsOf(d)) = Len(ContributedTargets(dpts0, d))
                        /\ \A j \in 1..Len(ReadsOf(d)) :
                              ReadsOf(d)[j].address =
                                  ContributedTargets(dpts0, d)[j].address

C11_Witness ==
    /\ ppc = "done"
    /\ dpts0 = <<[valid |-> TRUE, device |-> DevB,
                  data |-> <<PollingPoint(1, 1)>>],
                 [valid |-> TRUE, device |-> DevB,
                  data |-> <<PollingPoint(2, 3), PollingPoint(1, 1)>>]>>
    /\ Len(ReadsOf(DevB)) = 3
    /\ ReadsOf(DevB)[1].address = 1 /\ ReadsOf(DevB)[3].address = 1

\* whether a raw value read from a device is numeric: a number, or a str
\* that denotes one
RawIsNumeric(raw) ==
    raw.t \in {"int", "float"} \/ (raw.t = "str" /\ IsFloatLiteral(raw.v))

\* C12: every point produced for a successful read is NUMERIC (DATA_FLOAT)
\* with value raw * multiplier exactly when the raw value is numeric, and
\* otherwise STRING (DATA_STRING) with the raw value unchanged.
C12_NumericScaledElseString ==
    ppc = "done" =>
        \A k \in 1..Len(arguments) :
            LET dev == arguments[k].device
                targets == dpts[arguments[k].ref].data
                oks == SelectSeq(ReadsOf(dev), LAMBDA r : r.ok)
                points == returned[k].data
            IN /\ Len(points) = Len(oks)
               /\ \A j \in 1..Len(oks) :
                     LET raw == oks[j].raw
                         scale == targets[oks[j].index].multiplier
                     IN /\ (points[j].data_type = "DATA_FLOAT")
                              <=> RawIsNumeric(raw)
                        /\ RawIsNumeric(raw) =>
                              points[j].value =
                                  PyFloat(FloatTenths(raw) * scale)
                        /\ ~RawIsNumeric(raw) =>
                              /\ points[j].data_type = "DATA_STRING"
                              /\ points[j].value = raw

\* a numeric str scaled by 3, then a non-numeric str passed through
C12_Witness ==
    /\ ppc = "done" /\ Len(returned) = 1
    /\ returned[1].data =
          <<[key |-> "BACnet_analogValue", value |-> PyFloat(210),
             data_type |-> "DATA_FLOAT", point |-> 2, device |-> DevB],
            [key |-> "BACnet_analogValue", value |-> PyStr(<<"x">>),
             data_type |-> "DATA_STRING", point |-> 1, device |-> DevB]>>
    /\ ReadsOf(DevB)[1].raw = PyStr(<<"7">>)

\* C13: within a collection run the devices are polled one at a time in
\* ascending order of identifier: no read of a device is issued after a
\* read of a larger device, the devices whose poll has finished are
\* strictly ascending (each polled at most once) and all smaller than the
\* device being read, and a finished run has polled every device once.
C13_DevicesInSortedOrder ==
    /\ \A i \in 1..Len(reads) : \A j \in (i + 1)..Len(reads) :
          ~StrLess(reads[j].device.v, reads[i].device.v)
    /\ \A k \in 1..Len(returned) : \A l \in (k + 1)..Len(returned) :
          StrLess(returned[k].device.v, returned[l].device.v)
    /\ \A i \in 1..Len(reads) :
          (\A k \in 1..Len(returned) : returned[k].device # reads[i].device)
              => \A k \in 1..Len(returned) :
                    StrLess(returned[k].device.v, reads[i].device.v)
    /\ ppc = "done" =>
          /\ Len(returned) = Cardinality(DOMAIN ip_polltargets)
          /\ \A d \in DOMAIN ip_polltargets :
                \E k \in 1..Len(returned) : returned[k].device = d

\* the configuration names "b" before "ab"; "ab" is read first
C13_Witness ==
    /\ ppc = "done"
    /\ Len(dpts0) = 2
    /\ dpts0[1].valid /\ dpts0[1].device = DevB
    /\ dpts0[2].valid /\ dpts0[2].device = DevAB
    /\ reads[1].device = DevAB /\ reads[Len(reads)].device = DevB
    /\ returned[1].device = DevAB /\ returned[2].device = DevB

\* C15: building the per-device target map leaves the data list of every
\* polling-target object as the configuration returned it.
C15_DataListsUnchanged ==
    \A i \in 1..Len(dpts) : dpts[i].data = dpts0[i].data

\* the configuration of the end-to-end example
ExampleGroup ==
    Group(PyList(<<Dev10001>>), PyList(<<1, 2, 3, 10>>), Absent, PyInt(2))

\* C4: a group whose unit is an integer n gives every one of its targets
\* the unit n; ip_devices ["10.0.0.1"], input_registers [1,2,3,10], unit 2
\* resolves to the runs (1,3) and (10,1), each with unit 2.
C4_IntegerUnitKept ==
    rpc = "returned" =>
        /\ \A i \in 1..Len(result) :
              LET g == groups[origin[i][1]]
              IN ("unit" \in DOMAIN g.v /\ g.v["unit"].t = "int") =>
                    \A j \in 1..Len(result[i].data) :
                        result[i].data[j].unit = g.v["unit"]
        /\ groups = <<ExampleGroup>> =>
              result = <<DeviceRegisterVariables(Dev10001,
                  <<RegisterVariable("input_registers", 1, 3, PyInt(2)),
                    RegisterVariable("input_registers", 10, 1, PyInt(2))>>)>>

\* for a dict group: the device list or the address list of the kind is
\* absent or is not a list
BadKind(g, kind) ==
    \/ "ip_devices" \notin DOMAIN g.v
    \/ g.v["ip_devices"].t # "list"
    \/ kind \notin DOMAIN g.v
    \/ g.v[kind].t # "list"

AllDicts == \A k \in 1..Len(groups) : groups[k].t = "dict"

\* C6: with a group in which, for some register kind, the device list or
\* the address list is absent or not a sequence, the resolver raises no
\* error, returns no targets for that kind of that group, and still
\* returns the targets of every other valid group.
C6_BadKindSkipped ==
    AllDicts =>
        /\ rpc # "raised"
        /\ rpc = "returned" =>
              /\ \A i \in 1..Len(result) :
                    ~BadKind(groups[origin[i][1]], origin[i][2])
              /\ \A k \in 1..Len(groups) :
                    groups[k] = GoodGroup =>
                        \E i \in 1..Len(result) :
                            /\ origin[i] = <<k, "holding_registers">>
                            /\ result[i].device = DevB

\* the groups _get_unit must resolve to the default
UnitDegrades(data) ==
    \/ data.t # "dict"
    \/ "unit" \notin DOMAIN data.v
    \/ data.v["unit"].t \in {"bool", "none"}
    \/ (data.v["unit"].t = "str" /\ ~IsFloatLiteral(data.v["unit"].v))

\* C10: a group whose unit is missing, a boolean, null or a non-numeric
\* string, and a group that is not a dict, resolve to the default unit 0.
C10_DefaultUnit ==
    (upc = "done" /\ UnitDegrades(udata)) => unit_result = PyInt(0)

C10_Witness ==
    /\ upc = "done" /\ unit_result = PyInt(0)
    /\ udata = PyDict([unit |-> PyStr(<<"1", "x">>)])

\* the number a numeric str denotes, truncated toward zero: the digits
\* before the ".", with the sign
RECURSIVE DigitsValue(_)
DigitsValue(ds) ==
    IF ds = << >> THEN 0
    ELSE 10 * DigitsValue(SubSeq(ds, 1, Len(ds) - 1)) + DigitVal(ds[Len(ds)])

TruncOfStr(s) ==
    LET neg == s # << >> /\ s[1] = "-"
        body == IF neg THEN Tail(s) ELSE s
        dot == IF \E i \in 1..Len(body) : body[i] = "."
               THEN CHOOSE i \in 1..Len(body) : body[i] = "."
               ELSE Len(body) + 1
        whole == DigitsValue(SubSeq(body, 1, dot - 1))
    IN IF neg THEN -whole ELSE whole

\* C5: a unit that is a float or a float-like numeric string resolves to
\* its integer truncation toward zero ("12.7" gives 12).
C5_FloatTruncated ==
    (upc = "done" /\ udata.t = "dict" /\ "unit" \in DOMAIN udata.v) =>
        LET unit == udata.v["unit"]
        IN /\ unit.t = "float" => unit_result = PyInt(IntOfFloat(unit.v))
           /\ (unit.t = "str" /\ IsFloatLiteral(unit.v)) =>
                  unit_result = PyInt(TruncOfStr(unit.v))

====
